---------------------------- MODULE Spec2Model ----------------------------
(***************************************************************************)
(* Huffman codec over fixed-width letters (src/src/encode.rs,              *)
(* src/src/decode.rs).  Files are sequences of bits whose length is a      *)
(* multiple of 8; the bit reader and writer are big-endian.                *)
(***************************************************************************)
EXTENDS Integers, Sequences, FiniteSets, TLC

(* ------------------------------ bounds -------------------------------- *)
\* longest input file, in bytes
MaxLen == 4
\* most distinct complete letters an input may hold (orders of the table)
MaxDistinct == 3

\* byte values the input files are drawn from (0x41, 0x42)
ByteVals == {65, 66}
\* letter_size arguments handed to compress_file: the domain and both edges
LetterSizeArgs == 0..17
\* letter_size fields a damaged header may carry
BadHeaderValues == {0, 1, 17, 33, 255}

(* ------------------------- program constants -------------------------- *)
MinLetterSize == 2
MaxLetterSize == 16
LetterSizeFieldBits == 8
FileSizeFieldBits == 64
U32Bits == 32

ValidLetterSize(ls) == ls >= MinLetterSize /\ ls <= MaxLetterSize

(* ----------------------------- bit fields ----------------------------- *)
\* BitWrite::write(n, v): the low n bits of v, most significant first (every
\* value the model writes is below 2^31, so bits above bit 30 are zero)
ToBits(v, n) ==
    [i \in 1..n |-> IF n - i > 30 THEN 0 ELSE (v \div 2^(n - i)) % 2]

RECURSIVE FromBits(_)
\* the value of a big-endian bit field, by halves
FromBits(s) ==
    LET n == Len(s) IN
    IF n = 0 THEN 0
    ELSE IF n = 1 THEN s[1]
    ELSE IF \A i \in 1..n : s[i] = 0 THEN 0
    ELSE LET h == n \div 2
             hi == FromBits(SubSeq(s, 1, n - h))
             lo == FromBits(SubSeq(s, n - h + 1, n))
         IN  IF hi = 0 THEN lo ELSE hi * 2^h + lo

\* the bits of a file of bytes
BytesToBits(bs) ==
    [i \in 1..(8 * Len(bs)) |-> ToBits(bs[((i - 1) \div 8) + 1], 8)[((i - 1) % 8) + 1]]

\* BitRead::read::<u32>(n) at bit position pos: an n wider than the type is
\* refused, a field that runs past the end is UnexpectedEof and leaves the
\* reader at the end of the file with an empty bit queue.
BitRead(bits, pos, n) ==
    IF n > U32Bits THEN [err |-> "InvalidInput", value |-> 0, pos |-> pos]
    ELSE IF pos + n > Len(bits)
         THEN [err |-> "UnexpectedEof", value |-> 0, pos |-> Len(bits)]
    ELSE [err |-> "none",
          value |-> FromBits(SubSeq(bits, pos + 1, pos + n)),
          pos |-> pos + n]

\* BitWrite::byte_align: zero bits up to the next byte boundary
ByteAlign(out) == out \o [i \in 1..((8 - (Len(out) % 8)) % 8) |-> 0]

\* what reaches the file when a BitWriter is dropped: the whole bytes
Flushed(out) == SubSeq(out, 1, 8 * (Len(out) \div 8))

(* --------------------------- count_frequency -------------------------- *)
\* the read loop of count_frequency and compress from the start of the file:
\* one read of ls bits per letter until a read meets the end of the file,
\* which leaves the reader at the end
ReadLetters(bits, ls) ==
    [letters |-> [i \in 1..(Len(bits) \div ls) |->
                     BitRead(bits, (i - 1) * ls, ls).value],
     pos |-> BitRead(bits, ls * (Len(bits) \div ls), ls).pos]

Leaf(f, c) == [freq |-> f, leaf |-> TRUE, code |-> c]
Joint(l, r) == [freq |-> l.freq + r.freq, leaf |-> FALSE, left |-> l, right |-> r]

\* the HashMap of count_frequency: one Leaf per distinct letter
FrequencyNodes(bits, ls) ==
    LET letters == ReadLetters(bits, ls).letters IN
    { Leaf(Cardinality({i \in 1..Len(letters) : letters[i] = c}), c) :
        c \in {letters[i] : i \in 1..Len(letters)} }

\* HashMap::into_values().collect(): the entries in an unspecified order
Orders(S) ==
    { s \in [1..Cardinality(S) -> S] :
        \A i, j \in 1..Cardinality(S) : i # j => s[i] # s[j] }

(* ------------------------ Ord for Node, the heap ---------------------- *)
Compare(x, y) == IF x < y THEN "Less" ELSE IF x > y THEN "Greater" ELSE "Equal"

NodeCmp_Unreversed(a, b) == Compare(a.freq, b.freq)

\* impl Ord for Node: other.freq.cmp(&self.freq)
NodeCmp(a, b) == Compare(b.freq, a.freq)

NodeLe(a, b) == NodeCmp(a, b) # "Greater"
NodeGe(a, b) == NodeCmp(a, b) # "Less"
NodeLt(a, b) == NodeCmp(a, b) = "Less"

At(data, i) == data[i + 1]
Put(data, i, v) == [data EXCEPT ![i + 1] = v]
SatSub(a, b) == IF a >= b THEN a - b ELSE 0

RECURSIVE SiftDownRange(_, _, _, _)
\* BinaryHeap::sift_down_range with `elt` lifted out of the hole at pos
SiftDownRange(data, elt, pos, end) ==
    LET child == 2 * pos + 1 IN
    IF child <= SatSub(end, 2)
    THEN LET c == IF NodeLe(At(data, child), At(data, child + 1))
                  THEN child + 1 ELSE child IN
         IF NodeGe(elt, At(data, c)) THEN Put(data, pos, elt)
         ELSE SiftDownRange(Put(data, pos, At(data, c)), elt, c, end)
    ELSE IF child = end - 1 /\ NodeLt(elt, At(data, child))
         THEN Put(Put(data, pos, At(data, child)), child, elt)
    ELSE Put(data, pos, elt)

RECURSIVE Rebuild(_, _)
\* BinaryHeap::rebuild: sift_down(n) for n = len/2 - 1 down to 0
Rebuild(data, n) ==
    IF n = 0 THEN data
    ELSE Rebuild(SiftDownRange(data, At(data, n - 1), n - 1, Len(data)), n - 1)

\* BinaryHeap::from(vec)
HeapFrom(vec) == Rebuild(vec, Len(vec) \div 2)

RECURSIVE SiftUp(_, _, _, _)
\* BinaryHeap::sift_up(start, pos) with `elt` lifted out of the hole at pos
SiftUp(data, elt, start, pos) ==
    IF pos > start
    THEN LET parent == (pos - 1) \div 2 IN
         IF NodeLe(elt, At(data, parent)) THEN Put(data, pos, elt)
         ELSE SiftUp(Put(data, pos, At(data, parent)), elt, start, parent)
    ELSE Put(data, pos, elt)

RECURSIVE SiftDownToBottom(_, _, _)
\* BinaryHeap::sift_down_to_bottom: the hole goes down to a leaf position
SiftDownToBottom(data, pos, end) ==
    LET child == 2 * pos + 1 IN
    IF child <= SatSub(end, 2)
    THEN LET c == IF NodeLe(At(data, child), At(data, child + 1))
                  THEN child + 1 ELSE child IN
         SiftDownToBottom(Put(data, pos, At(data, c)), c, end)
    ELSE IF child = end - 1
         THEN [data |-> Put(data, pos, At(data, child)), pos |-> child]
    ELSE [data |-> data, pos |-> pos]

\* BinaryHeap::pop on a non-empty heap
HeapPop(data) ==
    LET last == data[Len(data)]
        rest == SubSeq(data, 1, Len(data) - 1)
    IN  IF rest = <<>> THEN [item |-> last, data |-> rest]
        ELSE LET down == SiftDownToBottom(rest, 0, Len(rest)) IN
             [item |-> rest[1],
              data |-> SiftUp(down.data, last, 0, down.pos)]

\* BinaryHeap::push
HeapPush(data, item) == SiftUp(Append(data, item), item, 0, Len(data))

(* ------------------------------ create_tree --------------------------- *)
NoTree == [leaf |-> "none"]

RECURSIVE MergeLoop(_)
MergeLoop(heap) ==
    IF Len(heap) > 1
    THEN LET p1 == HeapPop(heap)
             p2 == HeapPop(p1.data)
         IN  MergeLoop(HeapPush(p2.data, Joint(p1.item, p2.item)))
    ELSE heap

\* create_tree: None for no nodes, else the last node left on the heap
create_tree(nodeVec) ==
    LET heap == MergeLoop(HeapFrom(nodeVec)) IN
    IF heap = <<>> THEN NoTree ELSE heap[1]

(* ------------------------------ create_table -------------------------- *)
RECURSIVE Walk(_, _)
\* walk: every leaf with the path to it, left = 0, right = 1; the BitQueue
\* turns the path into (len, value)
Walk(tree, path) ==
    IF tree.leaf
    THEN {[code |-> tree.code, len |-> Len(path), value |-> FromBits(path)]}
    ELSE Walk(tree.left, Append(path, 0)) \cup Walk(tree.right, Append(path, 1))

\* encode.rs create_table: letter -> (length, value)
encode_table(tree) ==
    LET ws == Walk(tree, <<>>) IN
    [c \in {w.code : w \in ws} |->
        LET w == CHOOSE w \in ws : w.code = c IN <<w.len, w.value>>]

\* decode.rs create_table: (length, value) -> letter
decode_table(tree) ==
    LET ws == Walk(tree, <<>>) IN
    [k \in {<<w.len, w.value>> : w \in ws} |->
        (CHOOSE w \in ws : <<w.len, w.value>> = k).code]

(* ------------------------------ write_header -------------------------- *)
RECURSIVE write_header_Swapped(_, _)
write_header_Swapped(tree, ls) ==
    IF tree.leaf THEN <<0>> \o ToBits(tree.code, ls)
    ELSE <<1>> \o write_header_Swapped(tree.right, ls)
              \o write_header_Swapped(tree.left, ls)

RECURSIVE write_header(_, _)
\* flag 0 and the letter for a Leaf; flag 1, left, right for a Joint
write_header(tree, ls) ==
    IF tree.leaf THEN <<0>> \o ToBits(tree.code, ls)
    ELSE <<1>> \o write_header(tree.left, ls) \o write_header(tree.right, ls)

(* -------------------------------- compress ---------------------------- *)
RECURSIVE EncodeLetters(_, _)
\* the loop of compress: writer.write(length, value) for every letter in turn
\* (the codes of the first half of the letters, then those of the second)
EncodeLetters(letters, table) ==
    LET n == Len(letters) IN
    IF n = 0 THEN <<>>
    ELSE IF n = 1 THEN ToBits(table[letters[1]][2], table[letters[1]][1])
    ELSE EncodeLetters(SubSeq(letters, 1, n \div 2), table)
         \o EncodeLetters(SubSeq(letters, (n \div 2) + 1, n), table)

FixedFields(file_size, ls) ==
    ToBits(ls, LetterSizeFieldBits) \o ToBits(file_size, FileSizeFieldBits)

\* the tail of compress: seek back `remaining` bits from where the read loop
\* stopped and copy them
Remainder(bits, pos, remaining) ==
    IF remaining # 0
    THEN LET r == BitRead(bits, pos - remaining, remaining) IN
         ToBits(r.value, remaining)
    ELSE <<>>

\* compress(reader, writer, nodes, file_size, letter_size)
compress(bits, nodeVec, file_size, ls) ==
    IF ~ValidLetterSize(ls) THEN [res |-> "InvalidInput", out |-> <<>>]
    ELSE
    LET fixed == FixedFields(file_size, ls)
        tree == create_tree(nodeVec)
    IN  IF tree = NoTree THEN [res |-> "Ok", out |-> Flushed(fixed)]
        ELSE
        LET table == encode_table(tree)
            rd == ReadLetters(bits, ls)
            written == ls * Len(rd.letters)
            remaining == file_size * 8 - written
        IN  [res |-> "Ok",
             out |-> Flushed(ByteAlign(fixed \o write_header(tree, ls)
                                \o EncodeLetters(rd.letters, table)
                                \o Remainder(bits, rd.pos, remaining)))]

(* ------------------------------- read_header -------------------------- *)
DLeaf(c) == [leaf |-> TRUE, code |-> c]
DJoint(l, r) == [leaf |-> FALSE, left |-> l, right |-> r]

RECURSIVE read_header(_, _, _)
\* the mirror of write_header; the first error ends it
read_header(bits, pos, ls) ==
    LET flag == BitRead(bits, pos, 1) IN
    IF flag.err # "none" THEN [err |-> flag.err, pos |-> flag.pos]
    ELSE IF flag.value = 0
    THEN LET c == BitRead(bits, flag.pos, ls) IN
         IF c.err # "none" THEN [err |-> c.err, pos |-> c.pos]
         ELSE [err |-> "none", tree |-> DLeaf(c.value), pos |-> c.pos]
    ELSE LET l == read_header(bits, flag.pos, ls) IN
         IF l.err # "none" THEN l
         ELSE LET r == read_header(bits, l.pos, ls) IN
              IF r.err # "none" THEN r
              ELSE [err |-> "none", tree |-> DJoint(l.tree, r.tree), pos |-> r.pos]

(* ------------------------------- decompress --------------------------- *)
HeaderError_Propagated(kind, out) == [res |-> kind, out |-> out]

\* decompress, the match on read_header's error: UnexpectedEof is success
HeaderError(kind, out) ==
    IF kind = "UnexpectedEof" THEN [res |-> "Ok", out |-> out]
    ELSE [res |-> kind, out |-> out]

\* buffer = (buffer << 1) | bit in a u32: the oldest bit falls off
ShiftIn(buffer, bit) ==
    LET b == Append(buffer, bit) IN
    IF Len(b) > U32Bits THEN SubSeq(b, 2, Len(b)) ELSE b

\* one turn of the loop of decompress: one bit, one table lookup
DecodeStep(bits, table, ls, st) ==
    LET b == BitRead(bits, st.pos, 1) IN
    IF b.err # "none" THEN [st EXCEPT !.res = b.err, !.pos = b.pos]
    ELSE LET buf == ShiftIn(st.buffer, b.value)
             it == st.iteration + 1
             hit == {k \in DOMAIN table : k[1] = it /\ k[2] = FromBits(buf)}
         IN  IF hit # {}
             THEN [res |-> "Ok", pos |-> b.pos, written |-> st.written + ls,
                   buffer |-> <<>>, iteration |-> 0,
                   out |-> st.out \o ToBits(table[CHOOSE k \in hit : TRUE], ls)]
             ELSE [st EXCEPT !.pos = b.pos, !.buffer = buf, !.iteration = it]

RECURSIVE DecodeLoop(_, _, _, _, _)
\* while written < target_size, until a read fails
DecodeLoop(bits, table, ls, target, st) ==
    IF st.res # "Ok" \/ st.written >= target THEN st
    ELSE DecodeLoop(bits, table, ls, target, DecodeStep(bits, table, ls, st))

\* decompress(reader, writer); `out` is what the writer was given.  The
\* size field is a u64 read whole; letter_size 0 divides by zero, a panic.
decompress(bits) ==
    LET f1 == BitRead(bits, 0, LetterSizeFieldBits) IN
    IF f1.err # "none" THEN [res |-> f1.err, out |-> <<>>]
    ELSE
    LET ls == f1.value
        f2 == IF FileSizeFieldBits > Len(bits) - f1.pos
              THEN [err |-> "UnexpectedEof", value |-> 0, pos |-> Len(bits)]
              ELSE [err |-> "none",
                    value |-> FromBits(SubSeq(bits, f1.pos + 1,
                                              f1.pos + FileSizeFieldBits)),
                    pos |-> f1.pos + FileSizeFieldBits]
    IN  IF f2.err # "none" THEN [res |-> f2.err, out |-> <<>>]
        ELSE IF ls = 0 THEN [res |-> "panic", out |-> <<>>]
        ELSE
        LET file_size == f2.value * 8
            target_size == ls * (file_size \div ls)
            remaining_size == file_size - target_size
            hdr == read_header(bits, f2.pos, ls)
        IN  IF hdr.err # "none" THEN HeaderError(hdr.err, <<>>)
            ELSE
            LET body == DecodeLoop(bits, decode_table(hdr.tree), ls, target_size,
                                   [res |-> "Ok", pos |-> hdr.pos, written |-> 0,
                                    buffer |-> <<>>, iteration |-> 0, out |-> <<>>])
            IN  IF body.res # "Ok" THEN [res |-> body.res, out |-> body.out]
                ELSE IF remaining_size # 0
                THEN LET r == BitRead(bits, body.pos, remaining_size) IN
                     IF r.err # "none" THEN [res |-> r.err, out |-> body.out]
                     ELSE [res |-> "Ok",
                           out |-> body.out \o ToBits(r.value, remaining_size)]
                ELSE [res |-> "Ok", out |-> body.out]

(* ------------------------------- the state ---------------------------- *)
VARIABLES
    pc,           \* where the run is
    input,        \* the input file, a sequence of bytes
    letter_size,  \* the letter_size argument of compress_file
    inOpened,     \* the input file has been opened
    outCreated,   \* the output file has been created (truncated)
    inRead,       \* bytes of the input have been read
    nodes,        \* the Vec<Node> count_frequency returned
    cres,         \* compress_file's result
    artifact,     \* the compressed file
    artifact2,    \* the compressed file of a second run on the same input
    fileKind,     \* what decompress_file was given
    file,         \* the file decompress_file was given
    dres,         \* decompress_file's result
    output        \* the file decompress_file wrote

vars == <<pc, input, letter_size, inOpened, outCreated, inRead, nodes, cres,
          artifact, artifact2, fileKind, file, dres, output>>

InputBits == BytesToBits(input)
FileSize == Len(input)

ByteSeqs == UNION {[1..n -> ByteVals] : n \in 0..MaxLen}

DistinctLetters(bs, ls) ==
    IF ls = 0 THEN {}
    ELSE LET letters == ReadLetters(BytesToBits(bs), ls).letters IN
         {letters[i] : i \in 1..Len(letters)}

Init ==
    /\ input \in ByteSeqs
    /\ letter_size \in LetterSizeArgs
    /\ Cardinality(DistinctLetters(input, letter_size)) <= MaxDistinct
    /\ pc = "start"
    /\ inOpened = FALSE /\ outCreated = FALSE /\ inRead = FALSE
    /\ nodes = <<>>
    /\ cres = "none"
    /\ artifact = <<>> /\ artifact2 = <<>>
    /\ fileKind = "none" /\ file = <<>>
    /\ dres = "none" /\ output = <<>>

(* ----------------------------- compress_file -------------------------- *)
\* File::open(&input_path)
OpenInput ==
    /\ pc = "start"
    /\ pc' = "opened"
    /\ inOpened' = TRUE
    /\ UNCHANGED <<input, letter_size, outCreated, inRead, nodes, cres,
                   artifact, artifact2, fileKind, file, dres, output>>

\* File::create(&output_path)
CreateOutput ==
    /\ pc = "opened"
    /\ pc' = "created"
    /\ outCreated' = TRUE
    /\ artifact' = <<>>
    /\ UNCHANGED <<input, letter_size, inOpened, inRead, nodes, cres,
                   artifact2, fileKind, file, dres, output>>

\* count_frequency(&input_path, letter_size): a read of width 0 never meets
\* the end of the file, so the loop does not end
CountFrequency ==
    /\ pc = "created"
    /\ inRead' = TRUE
    /\ IF letter_size = 0
       THEN /\ pc' = "looping"
            /\ UNCHANGED nodes
       ELSE /\ pc' = "counted"
            /\ nodes' \in Orders(FrequencyNodes(InputBits, letter_size))
    /\ UNCHANGED <<input, letter_size, inOpened, outCreated, cres,
                   artifact, artifact2, fileKind, file, dres, output>>

\* metadata(input_path)?.len() and compress(reader, writer, nodes, ..)
Compress ==
    /\ pc = "counted"
    /\ LET c == compress(InputBits, nodes, FileSize, letter_size) IN
       /\ cres' = c.res
       /\ artifact' = c.out
       /\ pc' = IF c.res = "Ok" THEN "compressed" ELSE "failed"
    /\ UNCHANGED <<input, letter_size, inOpened, outCreated, inRead, nodes,
                   artifact2, fileKind, file, dres, output>>

\* compress_file once more on the same input: the table comes in a new order
CompressAgain ==
    /\ pc = "compressed"
    /\ \E order \in Orders(FrequencyNodes(InputBits, letter_size)) :
          artifact2' = compress(InputBits, order, FileSize, letter_size).out
    /\ pc' = "recompressed"
    /\ UNCHANGED <<input, letter_size, inOpened, outCreated, inRead, nodes,
                   cres, artifact, fileKind, file, dres, output>>

(* ---------------------------- decompress_file ------------------------- *)
DecompressFile(kind, f) ==
    /\ pc = "compressed"
    /\ fileKind' = kind
    /\ file' = f
    /\ LET d == decompress(f) IN
       /\ dres' = d.res
       /\ output' = Flushed(d.out)
    /\ pc' = "decompressed"
    /\ UNCHANGED <<input, letter_size, inOpened, outCreated, inRead, nodes,
                   cres, artifact, artifact2>>

\* decompress_file on the artifact as written
DecompressIntact == DecompressFile("intact", artifact)

\* decompress_file on a proper prefix of the artifact, cut at a byte
DecompressTruncated ==
    \E cut \in 0..((Len(artifact) \div 8) - 1) :
        DecompressFile("truncated", SubSeq(artifact, 1, 8 * cut))

\* decompress_file on the artifact with another letter_size field
DecompressBadHeader ==
    \E v \in BadHeaderValues :
        DecompressFile("badheader",
            ToBits(v, LetterSizeFieldBits)
            \o SubSeq(artifact, LetterSizeFieldBits + 1, Len(artifact)))

Next ==
    \/ OpenInput
    \/ CreateOutput
    \/ CountFrequency
    \/ Compress
    \/ CompressAgain
    \/ DecompressIntact
    \/ DecompressTruncated
    \/ DecompressBadHeader

Spec == Init /\ [][Next]_vars

(* ------------------------ what the claims speak of -------------------- *)
\* compress returned Ok in this run
Compressed == pc \in {"compressed", "recompressed", "decompressed"}
\* decompress_file has run on the artifact exactly as compress_file wrote it
RoundTripDone == pc = "decompressed" /\ fileKind = "intact"

Letters == ReadLetters(InputBits, letter_size).letters
NumDistinct == Cardinality(DistinctLetters(input, letter_size))
Tree == create_tree(nodes)
TreeBits == IF Tree = NoTree THEN <<>> ELSE write_header(Tree, letter_size)
BodyBits == IF Tree = NoTree THEN <<>> ELSE EncodeLetters(Letters, encode_table(Tree))
RemainderBits == (FileSize * 8) % letter_size
TailBits == SubSeq(InputBits, Len(InputBits) - RemainderBits + 1, Len(InputBits))
TreeStart == LetterSizeFieldBits + FileSizeFieldBits
TreeEnd == TreeStart + Len(TreeBits)
BodyEnd == TreeEnd + Len(BodyBits)

RECURSIVE Shape(_)
\* an encoder tree without its frequencies: what the header can carry
Shape(tree) ==
    IF tree.leaf THEN DLeaf(tree.code)
    ELSE DJoint(Shape(tree.left), Shape(tree.right))

IsPrefix(s, t) == Len(s) <= Len(t) /\ SubSeq(t, 1, Len(s)) = s
CodeBits(table, c) == ToBits(table[c][2], table[c][1])
PrefixFree(table) ==
    \A c, d \in DOMAIN table :
        c # d => ~IsPrefix(CodeBits(table, c), CodeBits(table, d))

\* C1: every input compressed with a letter_size in 2..16 and then
\* decompressed comes back byte for byte, and decompress succeeds.
C1_RoundTrip ==
    RoundTripDone => (dres = "Ok" /\ output = InputBits)

\* C2: an input whose complete letters all have one value gives a single
\* Leaf, and compress followed by decompress succeeds and reproduces it.
C2_SingleLetterRoundTrip ==
    (Compressed /\ NumDistinct = 1) =>
        /\ Tree.leaf = TRUE
        /\ RoundTripDone => (dres = "Ok" /\ output = InputBits)

\* C3: for a non-empty input with (file_size*8) mod letter_size > 0, the
\* artifact holds the last remainder bits of the input right after the
\* codes, only padding after them, and decompress ends its output with them.
C3_TailPreserved ==
    (Compressed /\ FileSize > 0 /\ RemainderBits > 0) =>
        /\ Len(artifact) >= BodyEnd + RemainderBits
        /\ SubSeq(artifact, BodyEnd + 1, BodyEnd + RemainderBits) = TailBits
        /\ Len(artifact) - (BodyEnd + RemainderBits) < 8
        /\ \A i \in (BodyEnd + RemainderBits + 1)..Len(artifact) : artifact[i] = 0
        /\ RoundTripDone =>
              /\ Len(output) >= RemainderBits
              /\ SubSeq(output, Len(output) - RemainderBits + 1, Len(output))
                     = TailBits

\* C4: two runs of compress_file on the same input with the same
\* letter_size write the same artifact, whatever order the table came in.
C4_Determinism ==
    pc = "recompressed" => artifact2 = artifact

\* C5: when compress_file returns its error for a letter_size outside
\* 2..16, the input has not been opened or read and the output file has not
\* been created.
C5_RejectedBeforeIO ==
    cres = "InvalidInput" => (~inOpened /\ ~inRead /\ ~outCreated)

\* C6: a zero-length input compresses to exactly the 8-bit letter_size and
\* the 64-bit size 0, nothing more, and that artifact decompresses with
\* success to zero bytes.
C6_EmptyInput ==
    (input = <<>> /\ ValidLetterSize(letter_size)) =>
        /\ pc # "failed"
        /\ Compressed =>
              /\ cres = "Ok"
              /\ Len(artifact) = LetterSizeFieldBits + FileSizeFieldBits
              /\ FromBits(SubSeq(artifact, 1, LetterSizeFieldBits)) = letter_size
              /\ \A i \in (LetterSizeFieldBits + 1)..Len(artifact) : artifact[i] = 0
        /\ RoundTripDone => (dres = "Ok" /\ output = <<>>)

C6_Witness ==
    input = <<>> /\ ValidLetterSize(letter_size) /\ RoundTripDone /\ dres = "Ok"

\* C7: a prefix of the artifact of a non-empty input that ends strictly
\* inside the serialized tree or strictly inside the body is refused with an
\* error, never accepted.
C7_TruncationDetected ==
    (pc = "decompressed" /\ fileKind = "truncated" /\ FileSize > 0
        /\ \/ (TreeStart < Len(file) /\ Len(file) < TreeEnd)
           \/ (TreeEnd < Len(file) /\ Len(file) < BodyEnd))
    => dres = "UnexpectedEof"

ExampleRun == input = <<65, 65, 65, 66>> /\ letter_size = 8 /\ Compressed
ExampleCounts ==
    {nodes[i] : i \in 1..Len(nodes)} = {Leaf(3, 65), Leaf(1, 66)}
ExampleJoinedOnce ==
    /\ Tree.leaf = FALSE
    /\ Tree.left.leaf = TRUE /\ Tree.right.leaf = TRUE
ExampleBody(b) ==
    /\ Len(artifact) = 96
    /\ SubSeq(artifact, TreeEnd + 1, TreeEnd + 4) = b
    /\ TreeEnd + 4 = 95
    /\ artifact[96] = 0

\* C8 (as amended): for [0x41,0x41,0x41,0x42] with letter_size 8 the table
\* is {0x41:3, 0x42:1}, the two leaves are joined once with 0x42 on the left,
\* the codes are 0x41 -> (1,1) and 0x42 -> (1,0), and the body is 1,1,1,0
\* followed by zero padding.
C8_Example ==
    ExampleRun =>
        /\ ExampleCounts
        /\ ExampleJoinedOnce
        /\ Tree.left.code = 66 /\ Tree.right.code = 65
        /\ encode_table(Tree) = (65 :> <<1, 1>> @@ 66 :> <<1, 0>>)
        /\ ExampleBody(<<1, 1, 1, 0>>)

C8_Witness ==
    input = <<65, 65, 65, 66>> /\ letter_size = 8 /\ pc = "compressed"

\* C8 (as claimed): the same run gives 0x41 -> (1,0), 0x42 -> (1,1) and the
\* body 0,0,0,1 followed by zero padding.
C8_ExampleAsClaimed ==
    ExampleRun =>
        /\ ExampleCounts
        /\ ExampleJoinedOnce
        /\ encode_table(Tree) = (65 :> <<1, 0>> @@ 66 :> <<1, 1>>)
        /\ ExampleBody(<<0, 0, 0, 1>>)

\* C9: a letter_size field outside 2..16 makes decompress return the
\* Truncated/Corrupt error; it neither crashes nor decodes with that width.
C9_HeaderValidated ==
    (pc = "decompressed" /\ fileKind = "badheader") => dres = "UnexpectedEof"

\* C10: with at least two distinct complete letters the codes are
\* prefix-free, read_header rebuilds the tree write_header wrote, and
\* decompress succeeds with exactly file_size*8 bits equal to the input, for
\* every order of the frequency table.
C10_TwoLetterRoundTrip ==
    /\ (pc = "compressed" /\ NumDistinct >= 2) =>
          /\ Tree.leaf = FALSE
          /\ PrefixFree(encode_table(Tree))
          /\ read_header(artifact, TreeStart, letter_size)
                 = [err |-> "none", tree |-> Shape(Tree), pos |-> TreeEnd]
    /\ (RoundTripDone /\ NumDistinct >= 2) =>
          /\ dres = "Ok"
          /\ Len(output) = FileSize * 8
          /\ output = InputBits

C10_Witness ==
    NumDistinct >= 2 /\ RoundTripDone /\ dres = "Ok" /\ RemainderBits > 0


=============================================================================
